---------------------------- MODULE Spec2Model ----------------------------
(***************************************************************************)
(* Model of audidata/transforms/midi.py: PianoRoll.__call__ (the roll      *)
(* encoder) followed by Note2Token.__call__ (the token encoder) on the     *)
(* same data dict.                                                         *)
(*                                                                         *)
(* Time.  Times are exact rationals measured in ticks; one frame (1/fps    *)
(* seconds) is TicksPerFrame ticks, so `t * self.fps` is t / TicksPerFrame *)
(* frames and `1. / fps` is TicksPerFrame ticks.  math.inf is the value    *)
(* Inf, larger than every finite time of the model.  Floating-point        *)
(* rounding error of the products is outside the model.                    *)
(*                                                                         *)
(* Rolls.  A roll is a function on <<frame, pitch>>; a velocity_roll cell  *)
(* holds the numerator v of v / 128.0.                                     *)
(***************************************************************************)
EXTENDS Integers, Sequences, FiniteSets, TLC

\* ------------------------------------------------------------- bounds
\* at most MaxNotes input notes
MaxNotes == 2
\* ticks per frame: an odd tick count lies half-way between two frames
TicksPerFrame == 2
\* note.start and note.end range over -1 .. MaxTime and math.inf
MaxTime == 4
\* start_time ranges over 0 .. MaxStartTime
MaxStartTime == 1
\* clip_duration is MaxClipDuration - 1 or MaxClipDuration
MaxClipDuration == 3

\* the encoder under study is built with pitches_num = 2
pitches_num == 2
\* math.inf
Inf == 1000

Velocities == {64, 100}
TokenSizes == {1, 5, 9, 10}
Pitches == 0 .. (pitches_num - 1)
Times == ((-1) .. MaxTime) \cup {Inf}
StartTimes == 0 .. MaxStartTime
ClipDurations == (MaxClipDuration - 1) .. MaxClipDuration
Notes == [start : Times, end : Times, pitch : Pitches, velocity : Velocities]


\* ------------------------------------------------------------- helpers

\* float subtraction `note.start - start_time`; inf - x = inf
Sub(t, s) == IF t = Inf THEN Inf ELSE t - s

\* Python's round() of num/den for num >= 0: nearest integer, ties to even
Round(num, den) ==
    LET q == num \div den
        r == num % den
    IN  IF 2 * r < den THEN q
        ELSE IF 2 * r > den THEN q + 1
        ELSE IF q % 2 = 0 THEN q ELSE q + 1

\* round(t * self.fps)
FrameIdx(t) == Round(t, TicksPerFrame)

\* clip_frames = round(self.fps * clip_duration) + 1
ClipFrames(clip_duration) == FrameIdx(clip_duration) + 1

\* np.zeros((clip_frames, self.pitches_num))
Zeros(clip_frames) == [c \in (0 .. (clip_frames - 1)) \X Pitches |-> 0]

\* roll[idx, pitch] = val
SetCell(roll, idx, pitch, val) == [roll EXCEPT ![<<idx, pitch>>] = val]

\* roll[lo : hi + 1, pitch] = val  (a slice assignment: frames outside the roll are ignored)
SetSlice(roll, lo, hi, pitch, val) ==
    [c \in DOMAIN roll |->
        IF c[2] = pitch /\ lo <= c[1] /\ c[1] <= hi THEN val ELSE roll[c]]

LastFrame(roll) == Cardinality(DOMAIN roll) \div pitches_num - 1

\* ------------------------------------------------------------- PianoRoll.__call__, one note

\* mutant: the `elif clip_duration < onset_time < math.inf` test left out
Discarded_OnlyEnded(onset_time, offset_time, clip_duration) ==
    offset_time < 0

\* `if offset_time < 0: continue / elif clip_duration < onset_time < math.inf: continue`
Discarded(onset_time, offset_time, clip_duration) ==
    \/ offset_time < 0
    \/ (clip_duration < onset_time /\ onset_time < Inf)

\* mutant: the snapshot keeps the note's absolute times
ClipNote_AbsoluteTimes(note, onset_time, offset_time) ==
    [pitch |-> note.pitch, start |-> note.start, end |-> note.end,
     velocity |-> note.velocity]

\* Note(pitch=pitch, start=onset_time, end=offset_time, velocity=velocity)
ClipNote(note, onset_time, offset_time) ==
    [pitch |-> note.pitch, start |-> onset_time, end |-> offset_time,
     velocity |-> note.velocity]

\* mutant: the ordering check left out
BadOrder_Unchecked(onset_time, offset_time) == FALSE

\* `if offset_time < onset_time: raise ...`
BadOrder(onset_time, offset_time) == offset_time < onset_time

CaseA(onset_time, offset_time, clip_duration) ==
    onset_time < 0 /\ 0 <= offset_time /\ offset_time <= clip_duration

CaseB(onset_time, offset_time, clip_duration) ==
    onset_time < 0 /\ clip_duration < offset_time /\ offset_time < Inf

CaseC(onset_time, offset_time, clip_duration) ==
    /\ 0 <= onset_time /\ onset_time <= clip_duration
    /\ 0 <= offset_time /\ offset_time <= clip_duration

\* mutant: the clip's end excluded from the onset test
CaseD_StrictOnset(onset_time, offset_time, clip_duration) ==
    /\ 0 <= onset_time /\ onset_time < clip_duration
    /\ clip_duration < offset_time /\ offset_time < Inf

CaseD(onset_time, offset_time, clip_duration) ==
    /\ 0 <= onset_time /\ onset_time <= clip_duration
    /\ clip_duration < offset_time /\ offset_time < Inf

\* The locals of the call: the four rolls, clip_notes, and the exception raised ("" for none)
UpdateA(L, offset_time, pitch) ==
    LET offset_idx == FrameIdx(offset_time)
    IN  [L EXCEPT !.offset_roll = SetCell(@, offset_idx, pitch, 1),
                  !.frame_roll = SetSlice(@, 0, offset_idx, pitch, 1)]

\* mutant: the slice stops one frame short of the end
UpdateB_ShortSlice(L, pitch) ==
    [L EXCEPT !.frame_roll = SetSlice(@, 0, LastFrame(@) - 1, pitch, 1)]

UpdateB(L, pitch) ==
    [L EXCEPT !.frame_roll = SetSlice(@, 0, LastFrame(@), pitch, 1)]

\* mutant: frame_roll[onset_idx : offset_idx, pitch] = 1, the offset frame left out
UpdateC_HalfOpen(L, onset_time, offset_time, pitch, velocity) ==
    LET onset_idx == FrameIdx(onset_time)
        offset_idx == FrameIdx(offset_time)
    IN  [L EXCEPT !.onset_roll = SetCell(@, onset_idx, pitch, 1),
                  !.velocity_roll = SetCell(@, onset_idx, pitch, velocity),
                  !.offset_roll = SetCell(@, offset_idx, pitch, 1),
                  !.frame_roll = SetSlice(@, onset_idx, offset_idx - 1, pitch, 1)]

UpdateC(L, onset_time, offset_time, pitch, velocity) ==
    LET onset_idx == FrameIdx(onset_time)
        offset_idx == FrameIdx(offset_time)
    IN  [L EXCEPT !.onset_roll = SetCell(@, onset_idx, pitch, 1),
                  !.velocity_roll = SetCell(@, onset_idx, pitch, velocity),
                  !.offset_roll = SetCell(@, offset_idx, pitch, 1),
                  !.frame_roll = SetSlice(@, onset_idx, offset_idx, pitch, 1)]

\* mutant: the velocity is not written when the offset lies after the clip
UpdateD_NoVelocity(L, onset_time, pitch, velocity) ==
    LET onset_idx == FrameIdx(onset_time)
    IN  [L EXCEPT !.onset_roll = SetCell(@, onset_idx, pitch, 1),
                  !.frame_roll = SetSlice(@, onset_idx, LastFrame(@), pitch, 1)]

UpdateD(L, onset_time, pitch, velocity) ==
    LET onset_idx == FrameIdx(onset_time)
    IN  [L EXCEPT !.onset_roll = SetCell(@, onset_idx, pitch, 1),
                  !.velocity_roll = SetCell(@, onset_idx, pitch, velocity),
                  !.frame_roll = SetSlice(@, onset_idx, LastFrame(@), pitch, 1)]

\* The if/elif chain that follows clip_notes.append
Classify(L, onset_time, offset_time, clip_duration, pitch, velocity) ==
    IF BadOrder(onset_time, offset_time)
        THEN [L EXCEPT !.err = "TypeError"]
    ELSE IF CaseA(onset_time, offset_time, clip_duration)
        THEN UpdateA(L, offset_time, pitch)
    ELSE IF CaseB(onset_time, offset_time, clip_duration)
        THEN UpdateB(L, pitch)
    ELSE IF CaseC(onset_time, offset_time, clip_duration)
        THEN UpdateC(L, onset_time, offset_time, pitch, velocity)
    ELSE IF CaseD(onset_time, offset_time, clip_duration)
        THEN UpdateD(L, onset_time, pitch, velocity)
    ELSE [L EXCEPT !.err = "NotImplementedError"]

\* `if offset_time == onset_time: offset_time = onset_time + (1. / fps)`:
\* the name fps is bound nowhere (the attribute is self.fps), so evaluating
\* the right-hand side raises NameError
ZeroDuration(onset_time, offset_time) == offset_time = onset_time

\* One iteration of `for note in notes`
ProcessNote(L, note, start_time, clip_duration) ==
    LET onset_time == Sub(note.start, start_time)
        offset_time == Sub(note.end, start_time)
    IN  IF Discarded(onset_time, offset_time, clip_duration) THEN L
        ELSE IF ZeroDuration(onset_time, offset_time)
            THEN [L EXCEPT !.err = "NameError"]
        ELSE Classify([L EXCEPT !.clip_notes =
                            Append(@, ClipNote(note, onset_time, offset_time))],
                      onset_time, offset_time, clip_duration,
                      note.pitch, note.velocity)

\* ------------------------------------------------------------- sort

\* key=lambda note: (note.start, note.pitch, note.end, note.velocity), compared as tuples
KeyLess(a, b) ==
    \/ a.start < b.start
    \/ a.start = b.start /\ a.pitch < b.pitch
    \/ a.start = b.start /\ a.pitch = b.pitch /\ a.end < b.end
    \/ a.start = b.start /\ a.pitch = b.pitch /\ a.end = b.end
         /\ a.velocity < b.velocity

\* insert x after the last element that is not greater than it (the sort is stable)
RECURSIVE Insert(_, _)
Insert(s, x) ==
    IF s = << >> THEN <<x>>
    ELSE IF KeyLess(x, s[Len(s)]) THEN Append(Insert(SubSeq(s, 1, Len(s) - 1), x), s[Len(s)])
    ELSE Append(s, x)

RECURSIVE SortNotes(_)
SortNotes(s) ==
    IF s = << >> THEN << >>
    ELSE Insert(SortNotes(SubSeq(s, 1, Len(s) - 1)), s[Len(s)])

\* ------------------------------------------------------------- Note2Token.__call__

Sos == <<"<sos>">>

InWindow(t, clip_duration) == 0 <= t /\ t <= clip_duration

NoteOnWords(note) ==
    << <<"name", "note_on">>, <<"time", note.start>>, <<"pitch", note.pitch>>,
       <<"velocity", note.velocity>> >>

NoteOffWords(note) ==
    << <<"name", "note_off">>, <<"time", note.end>>, <<"pitch", note.pitch>> >>

NoteWords(note, clip_duration) ==
    (IF InWindow(note.start, clip_duration) THEN NoteOnWords(note) ELSE << >>)
    \o (IF InWindow(note.end, clip_duration) THEN NoteOffWords(note) ELSE << >>)

RECURSIVE WordsOf(_, _)
WordsOf(notes, clip_duration) ==
    IF notes = << >> THEN << >>
    ELSE WordsOf(SubSeq(notes, 1, Len(notes) - 1), clip_duration)
            \o NoteWords(notes[Len(notes)], clip_duration)

Words(notes, clip_duration) == <<Sos>> \o WordsOf(notes, clip_duration) \o <<Sos>>

\* The tokenizer's word -> id table: ids are positive and distinct per word
stoi(w) ==
    IF w[1] = "<sos>" THEN 1
    ELSE IF w[1] = "name" THEN (IF w[2] = "note_on" THEN 2 ELSE 3)
    ELSE IF w[1] = "time" THEN 10 + (w[2] + MaxStartTime + 1)
    ELSE IF w[1] = "pitch" THEN 200 + w[2]
    ELSE 300 + w[2]

\* librosa.util.fix_length(data, size): cut to size, or pad with zeros on the right
FixLength(s, size) ==
    [k \in 1 .. size |-> IF k <= Len(s) THEN s[k] ELSE 0]

\* mutant: tokens_num taken after fix_length
Note2Token_CountAfterFix(d, max_tokens) ==
    LET words == Words(d.clip_note, d.clip_duration)
        tokens == FixLength([k \in 1 .. Len(words) |-> stoi(words[k])], max_tokens)
        masks == [k \in 1 .. Len(words) |-> 1]
    IN  [word |-> words,
         token |-> tokens,
         mask |-> FixLength(masks, max_tokens),
         tokens_num |-> Len(tokens)] @@ d

Note2Token(d, max_tokens) ==
    LET words == Words(d.clip_note, d.clip_duration)
        tokens == [k \in 1 .. Len(words) |-> stoi(words[k])]
        tokens_num == Len(tokens)
        masks == [k \in 1 .. Len(tokens) |-> 1]
    IN  [word |-> words,
         token |-> FixLength(tokens, max_tokens),
         mask |-> FixLength(masks, max_tokens),
         tokens_num |-> tokens_num] @@ d

\* ------------------------------------------------------------- state

VARIABLES
    data,           \* the data dict passed to both transforms
    soft_target,    \* PianoRoll.soft_target
    max_tokens,     \* Note2Token.max_tokens (0 until the token encoder is built)
    L,              \* locals of PianoRoll.__call__: rolls, clip_notes, err
    i,              \* position of `for note in notes` (index of the next note)
    pc              \* "start", "loop", "failed", "returned", "tokenized"

vars == <<data, soft_target, max_tokens, L, i, pc>>

NoLocals ==
    [frame_roll |-> << >>, onset_roll |-> << >>, offset_roll |-> << >>,
     velocity_roll |-> << >>, clip_notes |-> << >>, err |-> ""]

Init ==
    /\ \E n \in 0 .. MaxNotes, st \in StartTimes, cd \in ClipDurations :
          \E notes \in [1 .. n -> Notes] :
              data = [note |-> notes, pedal |-> << >>, start_time |-> st,
                      clip_duration |-> cd]
    /\ soft_target \in BOOLEAN
    /\ max_tokens = 0
    /\ L = NoLocals
    /\ i = 0
    /\ pc = "start"

\* lines 28-45, soft_target set: self.classes_num is no attribute of PianoRoll
AllocateSoft ==
    /\ pc = "start"
    /\ soft_target
    /\ L' = [L EXCEPT !.err = "AttributeError"]
    /\ pc' = "failed"
    /\ UNCHANGED <<data, soft_target, max_tokens, i>>

\* lines 28-45
Allocate ==
    /\ pc = "start"
    /\ ~soft_target
    /\ LET z == Zeros(ClipFrames(data.clip_duration))
       IN  L' = [frame_roll |-> z, onset_roll |-> z, offset_roll |-> z,
                 velocity_roll |-> z, clip_notes |-> << >>, err |-> ""]
    /\ i' = 1
    /\ pc' = "loop"
    /\ UNCHANGED <<data, soft_target, max_tokens>>

\* lines 48-113: one note; on an exception i stays at the note that raised
LoopStep ==
    /\ pc = "loop"
    /\ i <= Len(data.note)
    /\ LET r == ProcessNote(L, data.note[i], data.start_time, data.clip_duration)
       IN  /\ L' = r
           /\ IF r.err = "" THEN i' = i + 1 /\ pc' = "loop"
                            ELSE i' = i /\ pc' = "failed"
    /\ UNCHANGED <<data, soft_target, max_tokens>>

\* lines 115-126: sort, data.update(...), return data
Return ==
    /\ pc = "loop"
    /\ i > Len(data.note)
    /\ LET sorted == SortNotes(L.clip_notes)
       IN  /\ L' = [L EXCEPT !.clip_notes = sorted]
           /\ data' = [onset_roll |-> L.onset_roll, offset_roll |-> L.offset_roll,
                       frame_roll |-> L.frame_roll, velocity_roll |-> L.velocity_roll,
                       clip_note |-> sorted] @@ data
    /\ pc' = "returned"
    /\ UNCHANGED <<soft_target, max_tokens, i>>

\* Note2Token(tokenizer, max_tokens)(data), lines 134-187
Tokenize ==
    /\ pc = "returned"
    /\ \E m \in TokenSizes :
          /\ max_tokens' = m
          /\ data' = Note2Token(data, m)
    /\ pc' = "tokenized"
    /\ UNCHANGED <<soft_target, L, i>>

Next == AllocateSoft \/ Allocate \/ LoopStep \/ Return \/ Tokenize

Spec == Init /\ [][Next]_vars

\* ------------------------------------------------------------- the loop as a function

\* The locals after the first k notes of `notes`, the loop stopping at the first exception
RECURSIVE RunPrefix(_, _, _, _)
RunPrefix(notes, k, start_time, clip_duration) ==
    IF k = 0
        THEN LET z == Zeros(ClipFrames(clip_duration))
             IN  [frame_roll |-> z, onset_roll |-> z, offset_roll |-> z,
                  velocity_roll |-> z, clip_notes |-> << >>, err |-> ""]
    ELSE LET prev == RunPrefix(notes, k - 1, start_time, clip_duration)
         IN  IF prev.err # "" THEN prev
             ELSE ProcessNote(prev, notes[k], start_time, clip_duration)

\* ------------------------------------------------------------- vocabulary of the claims

Returned == pc \in {"returned", "tokenized"}

OnsetOf(k) == Sub(data.note[k].start, data.start_time)
OffsetOf(k) == Sub(data.note[k].end, data.start_time)
PitchOf(k) == data.note[k].pitch

\* frames of the rolls of the returned record
FramesOf(roll) == {c[1] : c \in DOMAIN roll}

\* r is the integer nearest to t / TicksPerFrame, a tie going to the even one
IsNearest(r, t) ==
    LET d == IF r * TicksPerFrame >= t THEN r * TicksPerFrame - t
                                       ELSE t - r * TicksPerFrame
    IN  2 * d < TicksPerFrame \/ (2 * d = TicksPerFrame /\ r % 2 = 0)

Nearest(t) == CHOOSE r \in 0 .. (t + 1) : IsNearest(r, t)

Bit(b) == IF b THEN 1 ELSE 0

\* the loop is about to process note k
AtNote(k) == pc = "loop" /\ i = k /\ k <= Len(data.note)

\* ------------------------------------------------------------- C1

\* C1: a single input note with 0 <= onset < offset <= clip_duration: the call
\* (soft_target off) does not fail, and in the returned record frame_roll of
\* the note's pitch is 1 exactly on the frames round(onset*fps) ..
\* round(offset*fps), onset_roll is 1 exactly at round(onset*fps) and
\* offset_roll exactly at round(offset*fps).
C1_SingleNoteInside ==
    (Len(data.note) = 1 /\ 0 <= OnsetOf(1) /\ OnsetOf(1) < OffsetOf(1)
        /\ OffsetOf(1) <= data.clip_duration)
    => /\ ~soft_target => pc # "failed"
       /\ Returned =>
            LET lo == Nearest(OnsetOf(1))
                hi == Nearest(OffsetOf(1))
                p == PitchOf(1)
            IN  /\ hi \in FramesOf(data.frame_roll)
                /\ \A t \in FramesOf(data.frame_roll) :
                      /\ data.frame_roll[<<t, p>>] = Bit(lo <= t /\ t <= hi)
                      /\ data.onset_roll[<<t, p>>] = Bit(t = lo)
                      /\ data.offset_roll[<<t, p>>] = Bit(t = hi)

C1_Witness ==
    /\ pc = "returned" /\ Len(data.note) = 1
    /\ 0 <= OnsetOf(1) /\ OnsetOf(1) < OffsetOf(1)
    /\ OffsetOf(1) <= data.clip_duration
    /\ Nearest(OnsetOf(1)) + 2 <= Nearest(OffsetOf(1))
    /\ data.frame_roll[<<Nearest(OnsetOf(1)) + 1, PitchOf(1)>>] = 1

\* ------------------------------------------------------------- C2

C2_Effect(k) ==
    /\ pc' = "loop"
    /\ \A t \in FramesOf(L.frame_roll) : L'.frame_roll[<<t, PitchOf(k)>>] = 1
    /\ L'.onset_roll = L.onset_roll
    /\ L'.offset_roll = L.offset_roll
    /\ L'.velocity_roll = L.velocity_roll

\* C2 as stated: processing any note with onset_time < 0 and offset_time >
\* clip_duration sets the whole frame_roll column of its pitch and leaves
\* onset_roll, offset_roll and velocity_roll as they were.
C2_Original ==
    [][\A k \in 1 .. Len(data.note) :
          (AtNote(k) /\ OnsetOf(k) < 0 /\ OffsetOf(k) > data.clip_duration)
          => C2_Effect(k)]_vars

\* C2 amended: the same for a note with onset_time < 0 and
\* clip_duration < offset_time < +inf.
C2_SpanningNote ==
    [][\A k \in 1 .. Len(data.note) :
          (AtNote(k) /\ OnsetOf(k) < 0 /\ OffsetOf(k) > data.clip_duration
              /\ OffsetOf(k) < Inf)
          => C2_Effect(k)]_vars

C2_Witness ==
    /\ pc = "loop" /\ i = 3
    /\ OnsetOf(2) < 0 /\ OffsetOf(2) > data.clip_duration /\ OffsetOf(2) < Inf
    /\ PitchOf(1) = PitchOf(2)
    /\ \E c \in DOMAIN L.onset_roll : L.onset_roll[c] = 1 /\ L.velocity_roll[c] > 0
    /\ \E c \in DOMAIN L.offset_roll : L.offset_roll[c] = 1
    /\ \A t \in FramesOf(L.frame_roll) : L.frame_roll[<<t, PitchOf(2)>>] = 1

\* ------------------------------------------------------------- C3

RECURSIVE Without(_, _, _)
\* the first n notes of the input, those picked out by `drop` removed
Without(drop(_), notes, n) ==
    IF n = 0 THEN << >>
    ELSE LET rest == Without(drop, notes, n - 1)
         IN  IF drop(notes[n]) THEN rest ELSE Append(rest, notes[n])

\* the number of input notes the loop has handled (the one that raised included)
Handled ==
    IF pc = "loop" THEN i - 1 ELSE IF pc = "failed" THEN i ELSE Len(data.note)

\* the locals and, once returned, the five output fields are those of the
\* call on the input with the notes picked out by `drop` removed
SameAsWithout(drop(_)) ==
    (pc # "start" /\ ~soft_target) =>
        LET kept == Without(drop, data.note, Handled)
            r == RunPrefix(kept, Len(kept), data.start_time, data.clip_duration)
        IN  /\ L.err = r.err
            /\ L.frame_roll = r.frame_roll
            /\ L.onset_roll = r.onset_roll
            /\ L.offset_roll = r.offset_roll
            /\ L.velocity_roll = r.velocity_roll
            /\ SortNotes(L.clip_notes) = SortNotes(r.clip_notes)
            /\ Returned =>
                 /\ data.frame_roll = r.frame_roll
                 /\ data.onset_roll = r.onset_roll
                 /\ data.offset_roll = r.offset_roll
                 /\ data.velocity_roll = r.velocity_roll
                 /\ data.clip_note = SortNotes(r.clip_notes)

C3_DropOriginal(note) ==
    \/ Sub(note.end, data.start_time) < 0
    \/ Sub(note.start, data.start_time) > data.clip_duration

C3_DropFinite(note) ==
    \/ Sub(note.end, data.start_time) < 0
    \/ /\ Sub(note.start, data.start_time) > data.clip_duration
       /\ Sub(note.start, data.start_time) < Inf

\* C3 as stated: a note with offset_time < 0 or onset_time > clip_duration is
\* discarded: the call behaves as on the input without those notes.
C3_Original == SameAsWithout(C3_DropOriginal)

\* C3 amended: a note with offset_time < 0, or with clip_duration <
\* onset_time < +inf, is discarded: it changes no roll and adds no clip_note
\* entry, and the five outputs equal those of the call without those notes.
C3_DiscardRule == SameAsWithout(C3_DropFinite)

C3_Witness ==
    /\ pc = "returned" /\ Len(data.note) = 2
    /\ OffsetOf(1) < 0
    /\ OnsetOf(2) > data.clip_duration /\ OnsetOf(2) < OffsetOf(2) /\ OffsetOf(2) < Inf
    /\ data.clip_note = << >>
    /\ \A c \in DOMAIN data.frame_roll : data.frame_roll[c] = 0

\* ------------------------------------------------------------- C4

\* C4: a zero-duration note (note.end = note.start) that survives the discard
\* rule is processed normally: the loop goes on and the clip_note entry
\* appended for it has end - start = 1/fps.
C4_ZeroDurationNormalized ==
    [][\A k \in 1 .. Len(data.note) :
          (AtNote(k) /\ data.note[k].end = data.note[k].start
              /\ OffsetOf(k) >= 0 /\ OnsetOf(k) <= data.clip_duration)
          => /\ pc' = "loop"
             /\ Len(L'.clip_notes) = Len(L.clip_notes) + 1
             /\ LET cn == L'.clip_notes[Len(L'.clip_notes)]
                IN  cn.end - cn.start = TicksPerFrame]_vars

\* ------------------------------------------------------------- C5

\* input notes of pitch p whose onset lies in [0, clip_duration] and rounds to frame t
OnsetsAt(t, p) ==
    {k \in 1 .. Len(data.note) :
        /\ PitchOf(k) = p
        /\ 0 <= OnsetOf(k) /\ OnsetOf(k) <= data.clip_duration
        /\ Nearest(OnsetOf(k)) = t}

\* those of them that the discard rule keeps
KeptOnsetsAt(t, p) == {k \in OnsetsAt(t, p) : OffsetOf(k) >= 0}

LastOf(S) == CHOOSE k \in S : \A j \in S : j <= k

VelocityIsOfLast(onsets(_, _)) ==
    Returned =>
        \A c \in DOMAIN data.onset_roll :
            IF data.onset_roll[c] = 1
                THEN /\ onsets(c[1], c[2]) # {}
                     /\ data.velocity_roll[c]
                            = data.note[LastOf(onsets(c[1], c[2]))].velocity
                ELSE data.onset_roll[c] = 0 /\ data.velocity_roll[c] = 0

\* C5 as stated: where onset_roll is 1, velocity_roll is velocity/128 of the
\* last input note of that pitch whose onset lies in [0, clip_duration] and
\* rounds to that frame; where onset_roll is 0, velocity_roll is 0.
C5_Original == VelocityIsOfLast(OnsetsAt)

\* C5 amended: on a call that completes, where onset_roll is 1,
\* velocity_roll is velocity/128 of the last input note of that pitch whose
\* onset lies in [0, clip_duration] and rounds to that frame and whose
\* offset_time is >= 0 (the note is not discarded); where onset_roll is 0,
\* velocity_roll is 0.
C5_VelocityOfLastKeptOnset == VelocityIsOfLast(KeptOnsetsAt)

C5_Witness ==
    /\ pc = "returned" /\ Len(data.note) = 2
    /\ \E c \in DOMAIN data.onset_roll :
          /\ KeptOnsetsAt(c[1], c[2]) = {1, 2}
          /\ data.note[1].velocity # data.note[2].velocity
          /\ OffsetOf(1) <= data.clip_duration /\ OffsetOf(2) > data.clip_duration
          /\ data.velocity_roll[c] = data.note[2].velocity

\* ------------------------------------------------------------- C6

RECURSIVE CountWords(_, _)
\* 4 per note whose start lies in [0, clip_duration], 3 per note whose end does
CountWords(notes, cd) ==
    IF notes = << >> THEN 0
    ELSE CountWords(Tail(notes), cd)
            + (IF 0 <= notes[1].start /\ notes[1].start <= cd THEN 4 ELSE 0)
            + (IF 0 <= notes[1].end /\ notes[1].end <= cd THEN 3 ELSE 0)

\* C6: token and mask have length max_tokens; with n = 2 + 4 per note_on
\* group + 3 per note_off group, the first min(n, max_tokens) tokens are the
\* ids of the first words and the rest are 0, mask is 1 there and 0 after,
\* and tokens_num = n also when n > max_tokens.
C6_FixedLength ==
    pc = "tokenized" =>
        LET n == 2 + CountWords(data.clip_note, data.clip_duration)
        IN  /\ Len(data.word) = n
            /\ data.tokens_num = n
            /\ DOMAIN data.token = 1 .. max_tokens
            /\ DOMAIN data.mask = 1 .. max_tokens
            /\ \A k \in 1 .. max_tokens :
                  IF k <= n
                      THEN data.token[k] = stoi(data.word[k]) /\ data.mask[k] = 1
                      ELSE data.token[k] = 0 /\ data.mask[k] = 0

C6_Witness ==
    /\ pc = "tokenized" /\ Len(data.clip_note) = 1
    /\ max_tokens = 5 /\ data.tokens_num = 9
    /\ data.token[5] = stoi(<<"velocity", data.clip_note[1].velocity>>)

\* ------------------------------------------------------------- C7

\* C7: with soft_target set the call completes exactly when the call with
\* soft_target unset completes, and returns the same five outputs.
C7_SoftTargetNoOp ==
    (soft_target /\ pc \notin {"start", "loop"}) =>
        LET r == RunPrefix(data.note, Len(data.note), data.start_time,
                           data.clip_duration)
        IN  /\ pc = "failed" <=> r.err # ""
            /\ Returned =>
                 /\ data.frame_roll = r.frame_roll
                 /\ data.onset_roll = r.onset_roll
                 /\ data.offset_roll = r.offset_roll
                 /\ data.velocity_roll = r.velocity_roll
                 /\ data.clip_note = SortNotes(r.clip_notes)

\* ------------------------------------------------------------- C8

\* note k survives the discard rule and has offset_time < onset_time
InvalidOrder(k) ==
    /\ OffsetOf(k) >= 0 /\ OnsetOf(k) <= data.clip_duration
    /\ OffsetOf(k) < OnsetOf(k)

InputFields == {"note", "pedal", "start_time", "clip_duration"}

\* C8: when the input holds such a note, the call fails at it if it gets
\* there: no later note is processed, the call never returns, and the input
\* record stays as it was, without any of the five output fields.
C8_InvalidOrderFails ==
    [][\A k \in 1 .. Len(data.note) :
          InvalidOrder(k) =>
             /\ AtNote(k) => pc' = "failed" /\ L'.err # ""
             /\ i' <= k
             /\ pc' \notin {"returned", "tokenized"}
             /\ data' = data
             /\ DOMAIN data' = InputFields]_vars

C8_Witness ==
    /\ pc = "failed" /\ i = 1 /\ Len(data.note) = 2
    /\ InvalidOrder(1) /\ ~InvalidOrder(2)
    /\ OnsetOf(2) >= 0 /\ OnsetOf(2) < OffsetOf(2) /\ OffsetOf(2) <= data.clip_duration
    /\ L.err = "TypeError"
    /\ DOMAIN data = InputFields

\* ------------------------------------------------------------- C9

\* the number of the conditions of Case A, B, C, D that hold
CasesHolding(on, off, cd) ==
    Bit(CaseA(on, off, cd)) + Bit(CaseB(on, off, cd))
        + Bit(CaseC(on, off, cd)) + Bit(CaseD(on, off, cd))

\* onset and offset are finite, the note survives the discard rule, and
\* offset_time >= onset_time
Classifiable(k) ==
    /\ OnsetOf(k) < Inf /\ OffsetOf(k) < Inf
    /\ OffsetOf(k) >= 0 /\ OnsetOf(k) <= data.clip_duration
    /\ OffsetOf(k) >= OnsetOf(k)

\* C9: every classifiable input note, its offset normalized when the
\* duration is zero, satisfies exactly one of the conditions of Case A..D,
\* and the call never raises NotImplementedError at such a note.
C9_CasesExhaustive ==
    /\ \A k \in 1 .. Len(data.note) :
          Classifiable(k) =>
              CasesHolding(OnsetOf(k),
                           IF OffsetOf(k) = OnsetOf(k)
                               THEN OnsetOf(k) + TicksPerFrame ELSE OffsetOf(k),
                           data.clip_duration) = 1
    /\ (pc = "failed" /\ L.err = "NotImplementedError") => ~Classifiable(i)

C9_Witness ==
    /\ pc = "returned" /\ Len(data.note) = 2
    /\ Classifiable(1) /\ Classifiable(2)
    /\ OnsetOf(1) = data.clip_duration /\ OffsetOf(1) > data.clip_duration
    /\ OnsetOf(2) < 0 /\ OffsetOf(2) = 0

\* ------------------------------------------------------------- C10

FullSpan(note) == note.start < 0 /\ note.end > data.clip_duration

\* the words of the record hold a note_on group of the note, or a note_off group
EmitsGroup(note) ==
    \E k \in 1 .. Len(data.word) - 2 :
        /\ data.word[k][1] = "name"
        /\ data.word[k + 1][1] = "time"
        /\ data.word[k + 2][1] = "pitch"
        /\ data.word[k + 2][2] = note.pitch
        /\ \/ data.word[k][2] = "note_on" /\ data.word[k + 1][2] = note.start
           \/ data.word[k][2] = "note_off" /\ data.word[k + 1][2] = note.end

\* C10 as stated: every note of the clip_note list RollEncoder produced has
\* its start or its end in [0, clip_duration].
C10_Original ==
    Returned =>
        \A k \in 1 .. Len(data.clip_note) :
            \/ InWindow(data.clip_note[k].start, data.clip_duration)
            \/ InWindow(data.clip_note[k].end, data.clip_duration)

\* C10 amended: every note of the produced clip_note list, other than one
\* that spans the whole clip (start < 0 and end > clip_duration), has its
\* start or its end in [0, clip_duration], and TokenEncoder emits a group of
\* words for it; a note spanning the whole clip has neither in the window.
C10_OnlyFullSpanSilent ==
    Returned =>
        \A k \in 1 .. Len(data.clip_note) :
            LET cn == data.clip_note[k]
                inside == \/ (0 <= cn.start /\ cn.start <= data.clip_duration)
                          \/ (0 <= cn.end /\ cn.end <= data.clip_duration)
            IN  /\ inside <=> ~FullSpan(cn)
                /\ (pc = "tokenized" /\ ~FullSpan(cn)) => EmitsGroup(cn)

C10_Witness ==
    /\ pc = "tokenized" /\ Len(data.clip_note) = 2
    /\ FullSpan(data.clip_note[1])
    /\ ~FullSpan(data.clip_note[2]) /\ EmitsGroup(data.clip_note[2])
    /\ data.tokens_num = 5

=============================================================================
